---- MODULE Spec2Model ----
(***************************************************************************)
(* Minimum-weight vertex cover as a MILP (src/main.py).                    *)
(*                                                                         *)
(* The program builds a formulation (one binary variable per node, one     *)
(* constraint per arc, a weighted objective) in                            *)
(* MinimumVertexCoverProblem.__init__, hands it to the SCIP solver in      *)
(* solve_problem, dispatches on the solver's status, validates the         *)
(* returned assignment and prints a summary.  The solver is an external    *)
(* collaborator: its status and the values it reports are inputs of the    *)
(* model, drawn from small sets.                                           *)
(*                                                                         *)
(* Numbers.  Weights are counted in units of 1/10000 and solver values in  *)
(* units of 1/1000000, so that the '%.3f' rendering and the 0.5 threshold  *)
(* are computed on integers.                                               *)
(***************************************************************************)
EXTENDS Integers, Sequences, FiniteSets

VARIABLES
    weights,    \* self.weights: weights[n + 1] is the weight of node n
    arcs,       \* self.arcs: a sequence of records [a, b]
    x,          \* self.x: x[n + 1] is the decision variable of node n
    cons,       \* the constraints registered with the solver, in order
    obj,        \* the objective registered with the solver
    pc,         \* position of the entry point
    status,     \* milp_solver.getStatus() after optimize()
    sol,        \* the solver's best solution, NoSol when it has none
    getval,     \* what milp_solver.getVal yields for each variable
    out,        \* everything printed or warned, in order
    report,     \* the summary display_solution printed, if it did
    err,        \* the exception that ended the run, "none" otherwise
    exitCode    \* the exit status of the process, -1 while it runs

vars == <<weights, arcs, x, cons, obj, pc, status, sol, getval, out, report,
          err, exitCode>>

----------------------------------------------------------------------------
(* Bounds of the model *)

MaxNodes == 2
MaxArcs == 2

(* Weights a node may carry, in units of 1/10000: 0, 1 and 5.0004 *)
WeightValues == {0, 10000, 50004}

(* Values a solver may report for a variable, in units of 1/1000000:
   0, exactly 0.5, 0.999999 and 1 *)
Values == {0, 500000, 999999, 1000000}

(* No solution: the solver holds no incumbent *)
NoSol == [has |-> FALSE, val |-> <<>>]

(* No objective registered yet *)
NoObj == [sense |-> "none", terms |-> <<>>]

(* Nothing reported *)
NoReport == [shown |-> FALSE, weight3 |-> 0, nodes |-> <<>>]

----------------------------------------------------------------------------
(* Sequences up to a length *)

SeqUpTo(S, k) == UNION {[1..m -> S] : m \in 0..k}

Range(s) == {s[i] : i \in DOMAIN s}

RECURSIVE SumSeq(_)
SumSeq(s) == IF s = <<>> THEN 0 ELSE s[1] + SumSeq(Tail(s))

RECURSIVE SetToSortedSeq(_)
SetToSortedSeq(S) ==
    IF S = {} THEN <<>>
    ELSE LET m == CHOOSE m \in S : \A o \in S : m <= o
         IN <<m>> \o SetToSortedSeq(S \ {m})

----------------------------------------------------------------------------
(* The instance *)

(* nodes: range(len(self.weights)) *)
Nodes == 0 .. (Len(weights) - 1)

(* self.weights[node] *)
Weight(node) == weights[node + 1]

(* Arc(a, b) *)
Arc(a, b) == [a |-> a, b |-> b]

----------------------------------------------------------------------------
(* Model construction: MinimumVertexCoverProblem.__init__ *)

(* addVar(f"x[{node}]", vtype="BINARY") *)
AddVar(node) == [name |-> node, vtype |-> "BINARY"]

(* generate_decision_variables: one variable per node, in node order *)
GenerateDecisionVariables == [i \in 1..Len(weights) |-> AddVar(i - 1)]

(* _validate_arc: "ok", or which endpoint is outside the node range *)
ValidateArc(arc) ==
    IF arc.a \notin Nodes THEN "left"
    ELSE IF arc.b \notin Nodes THEN "right"
    ELSE "ok"

(* Mutant: the left endpoint's variable taken twice *)
CoverConstraintLeftTwice(xs, arc) ==
    [lhs |-> <<xs[arc.a + 1], xs[arc.a + 1]>>, sense |-> ">=", rhs |-> 1]

(* Mutant: exactly one endpoint selected *)
CoverConstraintExactlyOne(xs, arc) ==
    [lhs |-> <<xs[arc.a + 1], xs[arc.b + 1]>>, sense |-> "==", rhs |-> 1]

(* self.x[arc.a] + self.x[arc.b] >= 1 *)
CoverConstraint(xs, arc) ==
    [lhs |-> <<xs[arc.a + 1], xs[arc.b + 1]>>, sense |-> ">=", rhs |-> 1]

(* generate_constraints: the loop over self.arcs from arc i on, acc being
   the constraints added so far.  Each arc is validated right before its
   own constraint is added; a failed validation raises and ends the loop. *)
RECURSIVE ConstraintLoop(_, _, _)
ConstraintLoop(xs, i, acc) ==
    IF i > Len(arcs) THEN [cons |-> acc, raised |-> FALSE, at |-> 0]
    ELSE IF ValidateArc(arcs[i]) # "ok"
         THEN [cons |-> acc, raised |-> TRUE, at |-> i]
         ELSE ConstraintLoop(xs, i + 1, Append(acc, CoverConstraint(xs, arcs[i])))

GenerateConstraints(xs) == ConstraintLoop(xs, 1, <<>>)

(* Mutant: the weights left out of the objective *)
UnitObjective(xs) ==
    [sense |-> "minimize",
     terms |-> [i \in 1..Len(weights) |-> [coef |-> 1, var |-> xs[i]]]]

(* Mutant: the objective maximized *)
MaximizeObjective(xs) ==
    [sense |-> "maximize",
     terms |-> [i \in 1..Len(weights) |-> [coef |-> Weight(i - 1), var |-> xs[i]]]]

(* generate_objective_function: minimize sum(weights[node] * x[node]) *)
GenerateObjectiveFunction(xs) ==
    [sense |-> "minimize",
     terms |-> [i \in 1..Len(weights) |-> [coef |-> Weight(i - 1), var |-> xs[i]]]]

(* __init__, called from the entry point: a ValueError raised by
   _validate_arc is not caught anywhere, so it ends the process. *)
Construct ==
    /\ pc = "start"
    /\ x' = GenerateDecisionVariables
    /\ LET r == GenerateConstraints(x') IN
         /\ cons' = r.cons
         /\ IF r.raised
            THEN /\ obj' = obj
                 /\ err' = "ValueError"
                 /\ out' = <<"Generating decision variables", " ... done.",
                             "Generating vertex cover constraints">>
                 /\ pc' = "done"
                 /\ exitCode' = 1
            ELSE /\ obj' = GenerateObjectiveFunction(x')
                 /\ err' = err
                 /\ out' = <<"Generating decision variables", " ... done.",
                             "Generating vertex cover constraints", " ... done.",
                             "Generating objective function", " ... done.">>
                 /\ pc' = "built"
                 /\ exitCode' = exitCode
    /\ UNCHANGED <<weights, arcs, status, sol, getval, report>>

----------------------------------------------------------------------------
(* The solver: milp_solver.optimize(), getStatus(), getVal() *)

(* The statuses solve_problem tells apart, and "userinterrupt" for every
   status its wildcard arm takes. *)
Statuses == {"optimal", "timelimit", "infeasible", "unbounded", "userinterrupt"}

(* An assignment: one reported value per node *)
Assignments == [Nodes -> Values]

(* What the solver may hold after optimize() under each status.  SCIP's
   status "timelimit" says only that the time limit ended the search: it is
   reported with an incumbent and without one.  Under the statuses whose arm
   reads no value the solution is left out. *)
SolverOutcomes(st) ==
    CASE st = "optimal" -> {[has |-> TRUE, val |-> v] : v \in Assignments}
      [] st = "timelimit" -> {[has |-> TRUE, val |-> v] : v \in Assignments} \cup {NoSol}
      [] OTHER -> {NoSol}

(* What getVal yields.  With a best solution it is that solution's value.
   Without one the binding either raises (Warning: method cannot be called
   in this stage) or hands back the values of SCIP's current LP or pseudo
   solution, depending on its version; of a vertex cover relaxation those
   are 0, 0.5 or 1 each. *)
GetValOutcomes(s) ==
    IF s.has THEN {[raises |-> FALSE, val |-> s.val]}
    ELSE {[raises |-> TRUE, val |-> <<>>]}
         \cup {[raises |-> FALSE, val |-> v] : v \in [Nodes -> {0, 500000, 1000000}]}

(* getVal is not called *)
NoRead == [raises |-> FALSE, val |-> <<>>]

(* The statuses whose arm of the match reads the solution *)
ReadsSolution(st) == st \in {"optimal", "timelimit"}

----------------------------------------------------------------------------
(* Solution interpretation and report *)

(* Mutant: the threshold met by exactly 0.5 *)
IsNodeIncludedAtLeastHalf(g, node) == g.val[node] >= 500000

(* is_node_included: getVal(self.x[node]) > 0.5 *)
IsNodeIncluded(g, node) == g.val[node] > 500000

(* is_arc_covered *)
IsArcCovered(g, arc) == IsNodeIncluded(g, arc.a) \/ IsNodeIncluded(g, arc.b)

(* all(map(self.is_arc_covered, self.arcs)) *)
AllArcsCovered(g) == \A i \in 1..Len(arcs) : IsArcCovered(g, arcs[i])

(* included_nodes = list(filter(self.is_node_included, self.nodes)) *)
IncludedNodes(g) == SetToSortedSeq({n \in Nodes : IsNodeIncluded(g, n)})

(* weight = sum(self.weights[a] for a in included_nodes) *)
SolutionWeight(inc) == SumSeq([i \in 1..Len(inc) |-> Weight(inc[i])])

(* '%.3f' % weight: a weight in units of 1/10000 rendered in units of
   1/1000, rounded to nearest.  (No weight of the model ends in a 5, where
   the rounding of the binary float decides.) *)
Fmt3(w) == (w + 5) \div 10

(* Mutant: the assertion does not fire *)
ValidateSolutionNoAssert(g) ==
    [out |-> <<"Double-checking that every arc is covered", " ... done.">>,
     err |-> "none"]

(* validate_solution: the messages it prints and the exception it raises.
   all(map(...)) calls getVal for the first arc's left endpoint first, so a
   getVal that raises does so as soon as there is an arc. *)
ValidateSolution(g) ==
    IF Len(arcs) > 0 /\ g.raises
    THEN [out |-> <<"Double-checking that every arc is covered">>, err |-> "Warning"]
    ELSE IF AllArcsCovered(g)
    THEN [out |-> <<"Double-checking that every arc is covered", " ... done.">>,
          err |-> "none"]
    ELSE [out |-> <<"Double-checking that every arc is covered">>,
          err |-> "AssertionError"]

(* The summary display_solution prints for the list of included nodes *)
Summary(inc) ==
    [shown |-> TRUE, weight3 |-> Fmt3(SolutionWeight(inc)), nodes |-> inc]

(* display_solution: the summary, or the exception of the first getVal *)
DisplaySolution(g) ==
    IF Nodes # {} /\ g.raises
    THEN [out |-> <<>>, err |-> "Warning", report |-> NoReport]
    ELSE [out |-> <<"Solution has weight", "included_nodes">>, err |-> "none",
          report |-> Summary(IncludedNodes(g))]

(* self.validate_solution(); self.display_solution() *)
ValidateThenDisplay(g) ==
    LET v == ValidateSolution(g) IN
    IF v.err # "none" THEN [out |-> v.out, err |-> v.err, report |-> NoReport]
    ELSE LET d == DisplaySolution(g)
         IN [out |-> v.out \o d.out, err |-> d.err, report |-> d.report]

(* The match statement of solve_problem *)
MatchStatus(st, g) ==
    CASE st = "optimal" ->
           LET r == ValidateThenDisplay(g)
           IN [r EXCEPT !.out = <<"Optimal solution found.">> \o @]
      [] st = "timelimit" ->
           LET r == ValidateThenDisplay(g)
           IN [r EXCEPT !.out = <<"warning: Solver timed out on a feasible, but potentially suboptimal solution.">> \o @]
      [] st = "infeasible" ->
           [out |-> <<"Problem is infeasible: No vertex covers exist.">>,
            err |-> "none", report |-> NoReport]
      [] st = "unbounded" ->
           [out |-> <<"Problem is unbounded; are all vertex weights finite?">>,
            err |-> "none", report |-> NoReport]
      [] OTHER ->
           [out |-> <<"Solver failed to converge within SOLVER_TIME_LIMIT seconds.">>,
            err |-> "none", report |-> NoReport]

(* The entry point after solve_problem returns: three lines of statistics,
   after which the script ends and the process exits with status 0. *)
MainFinish ==
    [out |-> <<"Problem size:", "Problem compilation time:", "Problem solution time:">>,
     exitCode |-> 0]

(* problem.solve_problem() and the rest of the entry point: optimize(),
   then the match on the status, then the statistics.  An exception raised
   by solve_problem is caught nowhere and ends the process with status 1. *)
SolveProblem ==
    /\ pc = "built"
    /\ \E st \in Statuses : \E s \in SolverOutcomes(st) :
       \E g \in (IF ReadsSolution(st) THEN GetValOutcomes(s) ELSE {NoRead}) :
       \E r \in {MatchStatus(st, g)} :
         /\ status' = st
         /\ sol' = s
         /\ getval' = g
         /\ report' = r.report
         /\ err' = r.err
         /\ out' = out \o <<"Solving problem using SCIP backend.">> \o r.out
                       \o (IF r.err = "none" THEN MainFinish.out ELSE <<>>)
         /\ exitCode' = IF r.err = "none" THEN MainFinish.exitCode ELSE 1
    /\ pc' = "done"
    /\ UNCHANGED <<weights, arcs, x, cons, obj>>

----------------------------------------------------------------------------
(* The specification *)

(* Endpoints an arc may name: every node, and one index on either side of
   the node range *)
Endpoints(w) == (-1) .. Len(w)

Init ==
    /\ weights \in SeqUpTo(WeightValues, MaxNodes)
    /\ arcs \in SeqUpTo({Arc(a, b) : a \in Endpoints(weights), b \in Endpoints(weights)},
                        MaxArcs)
    /\ x = <<>>
    /\ cons = <<>>
    /\ obj = NoObj
    /\ pc = "start"
    /\ status = "none"
    /\ sol = NoSol
    /\ getval = NoRead
    /\ out = <<>>
    /\ report = NoReport
    /\ err = "none"
    /\ exitCode = -1

Next == Construct \/ SolveProblem

Spec == Init /\ [][Next]_vars

----------------------------------------------------------------------------
(* The solver's contract, read off the formulation it was handed *)

(* A 0/1 value per node *)
BinaryAssignments == [Nodes -> {0, 1}]

(* The left-hand side of a registered constraint under a 0/1 assignment *)
LhsValue(c, b) == b[c.lhs[1].name] + b[c.lhs[2].name]

(* A registered constraint holds under a 0/1 assignment *)
Satisfies(c, b) ==
    CASE c.sense = ">=" -> LhsValue(c, b) >= c.rhs
      [] c.sense = "==" -> LhsValue(c, b) = c.rhs
      [] OTHER -> LhsValue(c, b) <= c.rhs

Feasible(b) == \A i \in DOMAIN cons : Satisfies(cons[i], b)

(* The registered objective under a 0/1 assignment *)
ObjValue(b) ==
    SumSeq([i \in DOMAIN obj.terms |-> obj.terms[i].coef * b[obj.terms[i].var.name]])

(* b is an optimal solution of the registered formulation *)
Optimal(b) ==
    /\ Feasible(b)
    /\ \A c \in BinaryAssignments :
          Feasible(c) =>
            IF obj.sense = "minimize" THEN ObjValue(b) <= ObjValue(c)
            ELSE ObjValue(b) >= ObjValue(c)

(* A reported value within the solver's integrality tolerance (1e-6) of 0
   or of 1, and the integer it stands for *)
NearIntegral(v) == v <= 1 \/ v >= 999999
Rounded(f) == [n \in DOMAIN f |-> IF f[n] >= 999999 THEN 1 ELSE 0]

(* The solver returned "optimal" for a solution that is one: an optimal
   solution of the registered formulation, reported within tolerance. *)
OptimalAsContracted ==
    /\ status = "optimal"
    /\ sol.has
    /\ \A n \in Nodes : NearIntegral(sol.val[n])
    /\ Optimal(Rounded(sol.val))

----------------------------------------------------------------------------
(* Vocabulary of the properties: the graph itself, not the formulation *)

WellFormed == \A i \in DOMAIN arcs : arcs[i].a \in Nodes /\ arcs[i].b \in Nodes

IsVertexCover(S) == \A i \in DOMAIN arcs : arcs[i].a \in S \/ arcs[i].b \in S

SetWeight(S) ==
    LET q == SetToSortedSeq(S) IN SumSeq([i \in DOMAIN q |-> weights[q[i] + 1]])

MinCoverWeight ==
    LET ws == {SetWeight(S) : S \in {T \in SUBSET Nodes : IsVertexCover(T)}}
    IN CHOOSE m \in ws : \A o \in ws : m <= o

(* The solve result in the terms of the solution interpreter's state
   machine: "timelimit" is FeasibleNotProven with an incumbent and
   TimedOutNoSolution without one. *)
SolveResult ==
    CASE status = "optimal" -> "Optimal"
      [] status = "timelimit" /\ sol.has -> "FeasibleNotProven"
      [] status = "timelimit" /\ ~sol.has -> "TimedOutNoSolution"
      [] status = "infeasible" -> "Infeasible"
      [] status = "unbounded" -> "Unbounded"
      [] OTHER -> "Unknown"

Printed(m) == \E i \in DOMAIN out : out[i] = m

ValidationRan == Printed("Double-checking that every arc is covered")

ValidationPassed ==
    \E i \in DOMAIN out :
        /\ out[i] = "Double-checking that every arc is covered"
        /\ i < Len(out)
        /\ out[i + 1] = " ... done."

ReportEmitted == Printed("Solution has weight")

----------------------------------------------------------------------------
(* Properties of model construction *)

(* C1: whenever construction raises the input-defect error, no cover
   constraint has been added to the solver, wherever the offending arc
   stands in the list. *)
C1_NoConstraintBeforeError == err = "ValueError" => cons = <<>>

(* C6: for an instance whose arcs are all well-formed, construction does
   not fail, there is exactly one binary variable per node, indexed by the
   node, and exactly one constraint per arc, the i-th being
   x[a_i] + x[b_i] >= 1 for the i-th arc. *)
C6_OneVariablePerNodeOneConstraintPerArc ==
    (pc # "start" /\ WellFormed) =>
        /\ err # "ValueError"
        /\ Len(x) = Len(weights)
        /\ \A n \in Nodes : x[n + 1].name = n /\ x[n + 1].vtype = "BINARY"
        /\ Len(cons) = Len(arcs)
        /\ \A i \in DOMAIN arcs :
              /\ cons[i].lhs[1].name = arcs[i].a
              /\ cons[i].lhs[2].name = arcs[i].b
              /\ cons[i].sense = ">="
              /\ cons[i].rhs = 1

(* C6 witness: two different well-formed arcs, a constraint for each *)
C6_Witness ==
    /\ pc = "built"
    /\ Len(arcs) = 2
    /\ arcs[1] # arcs[2]
    /\ arcs[1].a # arcs[1].b
    /\ Len(cons) = 2

(* C9: whenever construction succeeds, the assignment that selects every
   node satisfies every registered constraint, self-loops and repeated arcs
   included, so the formulation has a feasible solution. *)
C9_AllNodesIsFeasible ==
    (pc # "start" /\ err # "ValueError") =>
        /\ Len(cons) = Len(arcs)
        /\ Feasible([n \in Nodes |-> 1])

(* C9 witness: a self-loop and a repeated arc among the constraints *)
C9_Witness ==
    /\ pc = "built"
    /\ Len(cons) = 2
    /\ arcs[1].a = arcs[1].b
    /\ arcs[1] = arcs[2]

----------------------------------------------------------------------------
(* Properties of solve_problem *)

(* C2: when the time limit expires with no feasible solution found,
   solve_problem reports the failure to converge and produces no solution:
   it runs neither validate_solution nor display_solution, reads no
   variable value and raises nothing. *)
C2_TimedOutNoSolutionOnlyReported ==
    (pc = "done" /\ status = "timelimit" /\ ~sol.has) =>
        /\ Printed("Solver failed to converge within SOLVER_TIME_LIMIT seconds.")
        /\ ~ValidationRan
        /\ ~ReportEmitted
        /\ getval = NoRead
        /\ err = "none"

(* C3: after every solve whose status is "optimal" or "timelimit" the
   validation has run; the report is emitted only after the validation
   passed, every arc then having an included endpoint; and if some arc has
   neither endpoint included the run ends with the assertion error, exit
   status 1 and no report, not with a warning. *)
C3_ValidationGatesReport ==
    (pc = "done" /\ status \in {"optimal", "timelimit"}) =>
        /\ ValidationRan
        /\ ReportEmitted <=> report.shown
        /\ report.shown =>
              /\ ValidationPassed
              /\ \A i \in DOMAIN arcs :
                    \/ arcs[i].a \in Range(report.nodes)
                    \/ arcs[i].b \in Range(report.nodes)
        /\ (~getval.raises /\ ~AllArcsCovered(getval)) =>
              /\ err = "AssertionError"
              /\ exitCode = 1
              /\ ~ValidationPassed
              /\ ~ReportEmitted

(* C3 witness: an "optimal" solve whose assignment leaves an arc uncovered
   has been aborted *)
C3_Witness ==
    /\ pc = "done"
    /\ status = "optimal"
    /\ Len(arcs) = 2
    /\ ~AllArcsCovered(getval)
    /\ err = "AssertionError"

(* C4: for non-negative weights, when the solver returns "optimal" for an
   optimal solution of the formulation, the reported nodes are a vertex
   cover of the graph, their total weight is the minimum weight of a vertex
   cover, and the printed weight is that minimum to three decimals. *)
C4_ReportsMinimumWeightCover ==
    (pc = "done" /\ OptimalAsContracted) =>
        /\ report.shown
        /\ IsVertexCover(Range(report.nodes))
        /\ SetWeight(Range(report.nodes)) = MinCoverWeight
        /\ report.weight3 = Fmt3(MinCoverWeight)

(* C4 witness: the single arc (0,1) with weights [5.0004, 1] solved to the
   cover {1}, node 1 reported as 0.999999 *)
C4_Witness ==
    /\ pc = "done"
    /\ OptimalAsContracted
    /\ weights = <<50004, 10000>>
    /\ arcs = <<Arc(0, 1)>>
    /\ sol.val[1] = 999999
    /\ report = [shown |-> TRUE, weight3 |-> 1000, nodes |-> <<1>>]

(* C5, as stated: with no arcs and an "optimal" solve, the set of included
   nodes is empty and the reported weight is 0, whatever the weights. *)
C5_NoArcsEmptyCover ==
    (pc = "done" /\ OptimalAsContracted /\ arcs = <<>>) =>
        /\ report.shown
        /\ report.nodes = <<>>
        /\ report.weight3 = 0

(* C5, amended: with no arcs, non-negative weights and an "optimal" solve,
   the reported weight is 0 and every included node has weight 0; the
   cover is empty when every weight is positive. *)
C5_NoArcsZeroWeightCover ==
    (pc = "done" /\ OptimalAsContracted /\ arcs = <<>>) =>
        /\ report.shown
        /\ report.weight3 = 0
        /\ \A i \in DOMAIN report.nodes : Weight(report.nodes[i]) = 0
        /\ (\A n \in Nodes : Weight(n) > 0) => report.nodes = <<>>

(* C5 witness: no arcs, two nodes of positive weight, the empty cover
   reported *)
C5_Witness ==
    /\ pc = "done"
    /\ OptimalAsContracted
    /\ arcs = <<>>
    /\ Len(weights) = 2
    /\ \A n \in Nodes : Weight(n) > 0
    /\ report = [shown |-> TRUE, weight3 |-> 0, nodes |-> <<>>]

(* The instances create_random_instance builds: positive weights sorted
   ascending, arcs a sub-list of product(range(n), repeat=2) in its order *)
FromGenerator ==
    /\ \A i \in DOMAIN weights : weights[i] > 0
    /\ \A i \in DOMAIN weights : i > 1 => weights[i - 1] <= weights[i]
    /\ WellFormed
    /\ \A i \in DOMAIN arcs : i > 1 =>
          \/ arcs[i - 1].a < arcs[i].a
          \/ arcs[i - 1].a = arcs[i].a /\ arcs[i - 1].b < arcs[i].b

(* C7: a run of the entry point exits non-zero if the post-solve
   validation fails and zero otherwise; in particular a solve that did not
   converge exits zero. *)
C7_ExitStatus ==
    (pc = "done" /\ FromGenerator) =>
        /\ exitCode # 0 <=> err = "AssertionError"
        /\ SolveResult \in {"TimedOutNoSolution", "Unknown"} => exitCode = 0

(* C8: for every solve result other than Optimal and FeasibleNotProven,
   solve_problem prints exactly one of its three messages, the one of the
   case, raises nothing and runs neither the validation nor the report. *)
C8_OtherResultsOnlyReported ==
    LET msgs == [Infeasible |-> "Problem is infeasible: No vertex covers exist.",
                 Unbounded |-> "Problem is unbounded; are all vertex weights finite?",
                 TimedOutNoSolution |-> "Solver failed to converge within SOLVER_TIME_LIMIT seconds.",
                 Unknown |-> "Solver failed to converge within SOLVER_TIME_LIMIT seconds."]
    IN (pc = "done" /\ err # "ValueError"
        /\ SolveResult \notin {"Optimal", "FeasibleNotProven"}) =>
        /\ Len(out) = 6 + 2 + 3
        /\ out[7] = "Solving problem using SCIP backend."
        /\ out[8] = msgs[SolveResult]
        /\ err = "none"
        /\ ~ValidationRan
        /\ ~ReportEmitted

(* C10: a node is reported as included exactly when its value exceeds 0.5
   (0.999999 is included, exactly 0.5 is not), and the validation fails
   exactly when some arc has no endpoint whose value exceeds 0.5. *)
C10_StrictHalfThreshold ==
    (pc = "done" /\ status \in {"optimal", "timelimit"} /\ ~getval.raises) =>
        /\ report.shown =>
              \A n \in Nodes : n \in Range(report.nodes) <=> getval.val[n] > 500000
        /\ err = "AssertionError" <=>
              \E i \in DOMAIN arcs :
                  getval.val[arcs[i].a] <= 500000 /\ getval.val[arcs[i].b] <= 500000

(* C10 witness: a report that leaves out a node valued exactly 0.5 and
   includes a node valued 0.999999 *)
C10_Witness ==
    /\ pc = "done"
    /\ report.shown
    /\ Len(arcs) > 0
    /\ \E n \in Nodes : getval.val[n] = 500000 /\ n \notin Range(report.nodes)
    /\ \E n \in Nodes : getval.val[n] = 999999 /\ n \in Range(report.nodes)

====
